---- MODULE Spec2Model ----
(***************************************************************************)
(* Verification oracle: the verification-case evaluator                    *)
(* (src/src/verification_provider.rs) and the attestation pipeline         *)
(* (src/src/main.rs).                                                      *)
(*                                                                         *)
(* Strings are sequences of UTF-8 bytes, byte vectors are sequences of     *)
(* 0..255, a Vec is a sequence, an enum is the string of its variant.      *)
(***************************************************************************)
EXTENDS Integers, Sequences, FiniteSets, TLC

(***************************************************************************)
(* Bounds of the model.                                                    *)
(***************************************************************************)
\* Longest verification_cases vector the evaluator harness is run on.
MaxCases == 2
\* updated_at ranges over 1..MaxTime (days).
MaxTime == 2

(***************************************************************************)
(* Verification case model (verification_provider.rs:94-142).              *)
(***************************************************************************)
VerificationLevel ==
    {"Uniqueness", "Basic", "Plus", "Liveness", "Selfie", "Sow", "Telegram", "Twitter"}

VerificationStatus == {"Pending", "Contacted", "Done"}

CredentialStatus == {"Pending", "Approved", "Rejected"}

KycStatus == {"Unavailable", "Pending", "Approved", "Rejected"}

\* The level vectors the provider's "level" strings yield in this model.
LevelVectors ==
    { <<"Uniqueness">>,
      <<"Basic", "Liveness">>,
      <<"Basic">>,
      <<"Liveness", "Selfie">>,
      <<"Uniqueness", "Basic", "Liveness">> }

Times == 1..MaxTime

\* VerificationCase without its id: id is assigned by position at fetch time,
\* created_at is never read by the program.
CaseBodies ==
    [ level : LevelVectors,
      status : VerificationStatus,
      credential : CredentialStatus,
      liveness : BOOLEAN,
      updated_at : Times ]

VerificationCase(id, body) ==
    [ id |-> id,
      updated_at |-> body.updated_at,
      level |-> body.level,
      status |-> body.status,
      credential |-> body.credential,
      details |-> [liveness |-> body.liveness] ]


(***************************************************************************)
(* Option<T>: None is the empty sequence, Some(x) the one-element one.     *)
(***************************************************************************)
None == <<>>

Some(x) == <<x>>

(***************************************************************************)
(* The "level" string of a case (utils.rs:65-76,                           *)
(* verification_provider.rs:100-101, 107-120).                             *)
(***************************************************************************)
\* #[serde(rename_all = "lowercase")] on VerificationLevel: the string a
\* variant is written as.
LevelName(l) ==
    IF l = "Uniqueness" THEN <<117, 110, 105, 113, 117, 101, 110, 101, 115, 115>>
    ELSE IF l = "Basic" THEN <<98, 97, 115, 105, 99>>
    ELSE IF l = "Plus" THEN <<112, 108, 117, 115>>
    ELSE IF l = "Liveness" THEN <<108, 105, 118, 101, 110, 101, 115, 115>>
    ELSE IF l = "Selfie" THEN <<115, 101, 108, 102, 105, 101>>
    ELSE IF l = "Sow" THEN <<115, 111, 119>>
    ELSE IF l = "Telegram" THEN <<116, 101, 108, 101, 103, 114, 97, 109>>
    ELSE <<116, 119, 105, 116, 116, 101, 114>>

\* str::split(sep): the pieces between the separators, empty ones included.
RECURSIVE split(_, _)
split(str, sep) ==
    IF \A i \in 1..Len(str) : str[i] # sep THEN <<str>>
    ELSE LET k == CHOOSE i \in 1..Len(str) :
                    str[i] = sep /\ \A j \in 1..(i - 1) : str[j] # sep
         IN  <<SubSeq(str, 1, k - 1)>> \o split(SubSeq(str, k + 1, Len(str)), sep)

\* Mutant of VerificationLevelFromValue: the first letter may be a capital.
VerificationLevelFromValue_AnyCase(piece) ==
    LET lower == [i \in 1..Len(piece) |->
                    IF i = 1 /\ piece[i] \in 65..90 THEN piece[i] + 32 ELSE piece[i]]
    IN  IF \E l \in VerificationLevel : LevelName(l) = lower
        THEN Some(CHOOSE l \in VerificationLevel : LevelName(l) = lower)
        ELSE None

\* T::deserialize(Value::from(level)).ok() for T = VerificationLevel: the
\* variant written exactly as the piece, or None.
VerificationLevelFromValue(piece) ==
    IF \E l \in VerificationLevel : LevelName(l) = piece
    THEN Some(CHOOSE l \in VerificationLevel : LevelName(l) = piece)
    ELSE None

\* utils.rs:70-73 on a "level" that is a string: split at '+', keep what
\* deserializes, in order.
de_strings_joined_by_plus(str) ==
    LET pieces == split(str, 43)
        tried == [i \in 1..Len(pieces) |-> VerificationLevelFromValue(pieces[i])]
        kept == SelectSeq(tried, LAMBDA x : x # None)
    IN  [i \in 1..Len(kept) |-> kept[i][1]]

(***************************************************************************)
(* External account id (main.rs:103-124).                                  *)
(***************************************************************************)
\* Mutant of HexLower: the digits above 9 in upper case ('A' = 65).
HexLower_UpperCase(n) == IF n < 10 THEN 48 + n ELSE 55 + n

\* One lowercase hexadecimal digit as its ASCII byte ('0' = 48, 'a' = 97).
HexLower(n) == IF n < 10 THEN 48 + n ELSE 87 + n

\* uuid::fmt::Simple::encode_lower: two digits per byte, high nibble first,
\* no separators.
encode_lower(bytes) ==
    [k \in 1..(2 * Len(bytes)) |->
        IF k % 2 = 1 THEN HexLower(bytes[(k + 1) \div 2] \div 16)
        ELSE HexLower(bytes[k \div 2] % 16)]

\* impl From<Uuid> for ExternalAccountId: a Uuid is its 16 bytes.
ExternalAccountIdFromUuid(uuid) == encode_lower(uuid)

\* Uuid::default(), the nil UUID (main.rs:233).
NilUuid == [i \in 1..16 |-> 0]

\* f20181ba-fc0c-11ed-be56-0242ac120002 (main.rs:310).
TestUuid == <<242, 1, 129, 186, 252, 12, 17, 237, 190, 86, 2, 66, 172, 18, 0, 2>>

Uuids == {NilUuid, TestUuid}

\* The value of a hexadecimal digit of either case, 16 for any other byte.
HexValue(c) ==
    IF c \in 48..57 THEN c - 48
    ELSE IF c \in 97..102 THEN c - 87
    ELSE IF c \in 65..70 THEN c - 55
    ELSE 16

\* The simple form: 32 hexadecimal digits. Some(uuid) or None.
parse_simple(str) ==
    IF Len(str) # 32 \/ \E k \in 1..Len(str) : HexValue(str[k]) = 16 THEN None
    ELSE Some([i \in 1..16 |-> HexValue(str[2 * i - 1]) * 16 + HexValue(str[2 * i])])

\* The hyphenated form: groups of 8, 4, 4, 4 and 12 digits joined by '-'.
parse_hyphenated(str) ==
    IF Len(str) # 36 THEN None
    ELSE IF \E k \in {9, 14, 19, 24} : str[k] # 45 THEN None
    ELSE parse_simple(SubSeq(str, 1, 8) \o SubSeq(str, 10, 13) \o SubSeq(str, 15, 18)
                        \o SubSeq(str, 20, 23) \o SubSeq(str, 25, 36))

\* "urn:uuid:"
UrnPrefix == <<117, 114, 110, 58, 117, 117, 105, 100, 58>>

\* Uuid::from_str: the simple and hyphenated forms, the hyphenated form in
\* braces or after "urn:uuid:".
uuid_from_str(str) ==
    IF Len(str) = 32 THEN parse_simple(str)
    ELSE IF Len(str) = 36 THEN parse_hyphenated(str)
    ELSE IF Len(str) = 38 /\ str[1] = 123 /\ str[38] = 125
         THEN parse_hyphenated(SubSeq(str, 2, 37))
    ELSE IF Len(str) = 45 /\ SubSeq(str, 1, 9) = UrnPrefix
         THEN parse_hyphenated(SubSeq(str, 10, 45))
    ELSE None

\* de_external_account_id_from_uuid (utils.rs:78-91): Some(id), or None for
\* a deserialization error.
de_external_account_id_from_uuid(str) ==
    IF uuid_from_str(str) = None THEN None
    ELSE Some(ExternalAccountIdFromUuid(uuid_from_str(str)[1]))

\* "F20181BA-FC0C-11ED-BE56-0242AC120002"
TestUidUpper ==
    <<70, 50, 48, 49, 56, 49, 66, 65, 45, 70, 67, 48, 67, 45, 49, 49, 69,
      68, 45, 66, 69, 53, 54, 45, 48, 50, 52, 50, 65, 67, 49, 50, 48, 48,
      48, 50>>

\* "{00000000-0000-0000-0000-000000000000}"
NilUidBraced ==
    <<123, 48, 48, 48, 48, 48, 48, 48, 48, 45, 48, 48, 48, 48, 45, 48, 48,
      48, 48, 45, 48, 48, 48, 48, 45, 48, 48, 48, 48, 48, 48, 48, 48, 48,
      48, 48, 48, 125>>

\* "f20181ba-fc0c-11ed-be56-0242ac12000g": no UUID.
BadUid ==
    <<102, 50, 48, 49, 56, 49, 98, 97, 45, 102, 99, 48, 99, 45, 49, 49,
      101, 100, 45, 98, 101, 53, 54, 45, 48, 50, 52, 50, 97, 99, 49, 50,
      48, 48, 48, 103>>

\* The "uid" strings of the profiles the provider returns.
ProviderUids == {TestUidUpper, NilUidBraced, BadUid}

\* "f20181bafc0c11edbe560242ac120002" (main.rs:324)
TestUuidSimple ==
    <<102, 50, 48, 49, 56, 49, 98, 97, 102, 99, 48, 99, 49, 49, 101, 100,
      98, 101, 53, 54, 48, 50, 52, 50, 97, 99, 49, 50, 48, 48, 48, 50>>

\* "00000000000000000000000000000000"
NilUuidSimple == [i \in 1..32 |-> 48]

(***************************************************************************)
(* The evaluator (verification_provider.rs:241-312).                       *)
(***************************************************************************)
\* level.iter().any(|level| level == &tag)
HasLevel(case, tag) == \E j \in 1..Len(case.level) : case.level[j] = tag

\* Mutant of IsUniquenessCase: the lifecycle status is not matched.
IsUniquenessCase_AnyStatus(case) ==
    /\ case.credential = "Approved"
    /\ HasLevel(case, "Uniqueness")

\* The closure of User::is_verified_uniqueness (lines 243-254).
IsUniquenessCase(case) ==
    /\ case.status = "Done"
    /\ case.credential = "Approved"
    /\ HasLevel(case, "Uniqueness")

\* Mutant of is_verified_uniqueness: any finished, approved case counts.
is_verified_uniqueness_AnyLevel(u) ==
    \E i \in 1..Len(u.verification_cases) :
        /\ u.verification_cases[i].status = "Done"
        /\ u.verification_cases[i].credential = "Approved"

\* User::is_verified_uniqueness(&self).
is_verified_uniqueness(u) ==
    \E i \in 1..Len(u.verification_cases) : IsUniquenessCase(u.verification_cases[i])

\* Mutant of StableInsert: the comparator's operands swapped (oldest first).
StableInsert_Ascending(sorted, x) ==
    LET pos == Cardinality({i \in 1..Len(sorted) : sorted[i].updated_at <= x.updated_at})
    IN  SubSeq(sorted, 1, pos) \o <<x>> \o SubSeq(sorted, pos + 1, Len(sorted))

\* Mutant of StableInsert: x goes before the elements that compare equal to
\* it, as an unstable sort may place it.
StableInsert_BeforeEquals(sorted, x) ==
    LET pos == Cardinality({i \in 1..Len(sorted) : sorted[i].updated_at > x.updated_at})
    IN  SubSeq(sorted, 1, pos) \o <<x>> \o SubSeq(sorted, pos + 1, Len(sorted))

\* One step of the stable sort: x goes after every element that does not
\* compare greater than it under |a, b| b.updated_at.cmp(&a.updated_at).
StableInsert(sorted, x) ==
    LET pos == Cardinality({i \in 1..Len(sorted) : sorted[i].updated_at >= x.updated_at})
    IN  SubSeq(sorted, 1, pos) \o <<x>> \o SubSeq(sorted, pos + 1, Len(sorted))

RECURSIVE SortFrom(_, _)
SortFrom(sorted, rest) ==
    IF rest = <<>> THEN sorted
    ELSE SortFrom(StableInsert(sorted, Head(rest)), Tail(rest))

\* self.verification_cases.sort_by(|a, b| b.updated_at.cmp(&a.updated_at)):
\* most recent first, stable.
sort_by_updated_at_desc(cases) == SortFrom(<<>>, cases)

\* Mutant of case_kyc_status: the Liveness tag is not required.
case_kyc_status_BasicOnly(case) ==
    IF ~HasLevel(case, "Basic") THEN None
    ELSE IF case.credential = "Approved" /\ case.details.liveness THEN Some("Approved")
    ELSE IF case.credential = "Pending" /\ case.details.liveness THEN Some("Pending")
    ELSE IF case.credential = "Rejected" /\ case.details.liveness THEN Some("Rejected")
    ELSE None

\* Mutant of case_kyc_status: details.liveness is not matched.
case_kyc_status_IgnoreLiveness(case) ==
    IF ~(HasLevel(case, "Basic") /\ HasLevel(case, "Liveness")) THEN None
    ELSE IF case.credential = "Approved" THEN Some("Approved")
    ELSE IF case.credential = "Pending" THEN Some("Pending")
    ELSE Some("Rejected")

\* Mutant of case_kyc_status: only a case whose lifecycle status is Done
\* counts.
case_kyc_status_DoneOnly(case) ==
    IF ~(HasLevel(case, "Basic") /\ HasLevel(case, "Liveness")) THEN None
    ELSE IF case.status # "Done" THEN None
    ELSE IF case.credential = "Approved" /\ case.details.liveness THEN Some("Approved")
    ELSE IF case.credential = "Pending" /\ case.details.liveness THEN Some("Pending")
    ELSE IF case.credential = "Rejected" /\ case.details.liveness THEN Some("Rejected")
    ELSE None

\* The filter_map closure of get_kyc_status (lines 265-298).
case_kyc_status(case) ==
    IF ~(HasLevel(case, "Basic") /\ HasLevel(case, "Liveness")) THEN None
    ELSE IF case.credential = "Approved" /\ case.details.liveness THEN Some("Approved")
    ELSE IF case.credential = "Pending" /\ case.details.liveness THEN Some("Pending")
    ELSE IF case.credential = "Rejected" /\ case.details.liveness THEN Some("Rejected")
    ELSE None

\* .filter_map(..).collect::<Vec<_>>()
RECURSIVE filter_map_kyc(_)
filter_map_kyc(cases) ==
    IF cases = <<>> THEN <<>>
    ELSE case_kyc_status(Head(cases)) \o filter_map_kyc(Tail(cases))

\* Mutant of ResolveKyc: no approval check, the most recent status wins.
ResolveKyc_MostRecentOnly(cases_status) ==
    IF cases_status = <<>> THEN "Unavailable" ELSE Head(cases_status)

\* Mutant of ResolveKyc: an empty vector resolves to Pending.
ResolveKyc_DefaultPending(cases_status) ==
    IF \E i \in 1..Len(cases_status) : cases_status[i] = "Approved" THEN "Approved"
    ELSE IF cases_status = <<>> THEN "Pending"
    ELSE Head(cases_status)

\* What get_kyc_status returns, computed from the vector it has just sorted
\* (lines 301-310).
ResolveKyc(cases_status) ==
    IF \E i \in 1..Len(cases_status) : cases_status[i] = "Approved" THEN "Approved"
    ELSE IF cases_status = <<>> THEN "Unavailable"
    ELSE Head(cases_status)

\* User::get_kyc_status(&mut self): the status returned.
get_kyc_status(u) ==
    ResolveKyc(filter_map_kyc(sort_by_updated_at_desc(u.verification_cases)))

\* User::get_kyc_status(&mut self): the user it leaves behind.
AfterGetKycStatus(u) ==
    [u EXCEPT !.verification_cases = sort_by_updated_at_desc(u.verification_cases)]

(***************************************************************************)
(* Canonical encoding: the derived Borsh form of VerifiedAccountToken      *)
(* (main.rs:95-105).                                                       *)
(***************************************************************************)
\* n as `width` little-endian bytes; floor division wraps a negative n to
\* its two's complement.
RECURSIVE LeBytes(_, _)
LeBytes(n, width) ==
    IF width = 0 THEN <<>>
    ELSE <<n % 256>> \o LeBytes(n \div 256, width - 1)

\* A u64 is held as four 16-bit limbs, least significant first.
RECURSIVE LeLimbs(_, _)
LeLimbs(n, count) ==
    IF count = 0 THEN <<>>
    ELSE <<n % 65536>> \o LeLimbs(n \div 65536, count - 1)

\* `x as u64` of an i64 x: the same 64 bits.
AsU64(x) == LeLimbs(x, 4)

\* Mutant of borsh_u64: the bytes of each limb swapped.
borsh_u64_Swapped(limbs) ==
    <<limbs[1] \div 256, limbs[1] % 256, limbs[2] \div 256, limbs[2] % 256,
      limbs[3] \div 256, limbs[3] % 256, limbs[4] \div 256, limbs[4] % 256>>

\* u64::to_le_bytes, as BorshSerialize for u64 writes it.
borsh_u64(limbs) ==
    <<limbs[1] % 256, limbs[1] \div 256, limbs[2] % 256, limbs[2] \div 256,
      limbs[3] % 256, limbs[3] \div 256, limbs[4] % 256, limbs[4] \div 256>>

\* BorshSerialize for String: u32 little-endian byte length, then the bytes.
borsh_string(str) == LeBytes(Len(str), 4) \o str

\* BorshSerialize for bool: one byte, 0 or 1.
borsh_bool(b) == <<IF b THEN 1 ELSE 0>>

\* Mutant of try_to_vec: verified_kyc written before timestamp.
try_to_vec_KycBeforeTimestamp(t) ==
    borsh_string(t.claimer) \o borsh_string(t.ext_account)
        \o borsh_bool(t.verified_kyc) \o borsh_u64(t.timestamp)

\* VerifiedAccountToken::try_to_vec(): the fields in declaration order.
try_to_vec(t) ==
    borsh_string(t.claimer) \o borsh_string(t.ext_account)
        \o borsh_u64(t.timestamp) \o borsh_bool(t.verified_kyc)

\* String::from_utf8 over the byte strings of this model: ASCII and the
\* two-byte forms are accepted (a lead byte 0xC2..0xDF and the continuation
\* byte 0x80..0xBF after it), every other byte is refused.
IsUtf8(bytes) ==
    \A i \in 1..Len(bytes) :
        \/ bytes[i] < 128
        \/ bytes[i] \in 194..223 /\ i < Len(bytes) /\ bytes[i + 1] \in 128..191
        \/ bytes[i] \in 128..191 /\ i > 1 /\ bytes[i - 1] \in 194..223

\* BorshDeserialize for String: Some([value, rest]) or None on an error
\* (unexpected end of input, invalid UTF-8). A length of 65536 or more
\* exceeds every buffer of the model.
read_string(buf) ==
    IF Len(buf) < 4 THEN None
    ELSE IF buf[3] # 0 \/ buf[4] # 0 THEN None
    ELSE LET n == buf[1] + 256 * buf[2]
         IN  IF Len(buf) - 4 < n THEN None
             ELSE IF ~IsUtf8(SubSeq(buf, 5, 4 + n)) THEN None
             ELSE Some([value |-> SubSeq(buf, 5, 4 + n),
                        rest |-> SubSeq(buf, 5 + n, Len(buf))])

\* BorshDeserialize for u64.
read_u64(buf) ==
    IF Len(buf) < 8 THEN None
    ELSE Some([value |-> <<buf[1] + 256 * buf[2], buf[3] + 256 * buf[4],
                           buf[5] + 256 * buf[6], buf[7] + 256 * buf[8]>>,
               rest |-> SubSeq(buf, 9, Len(buf))])

\* BorshDeserialize for bool: any byte other than 0 and 1 is an error.
read_bool(buf) ==
    IF buf = <<>> THEN None
    ELSE IF buf[1] \notin {0, 1} THEN None
    ELSE Some([value |-> (buf[1] = 1), rest |-> Tail(buf)])

\* The characters of an account id: a-z, 0-9 and the separators - _ .
IsAccountIdAlnum(c) == c \in 97..122 \/ c \in 48..57

IsAccountIdSeparator(c) == c \in {45, 46, 95}

\* AccountId validation, which the AccountId field runs on decoding: 2 to 64
\* characters, alphanumeric runs joined by single separators.
is_valid_account_id(str) ==
    /\ Len(str) >= 2
    /\ Len(str) <= 64
    /\ \A i \in 1..Len(str) : IsAccountIdAlnum(str[i]) \/ IsAccountIdSeparator(str[i])
    /\ IsAccountIdAlnum(str[1])
    /\ IsAccountIdAlnum(str[Len(str)])
    /\ \A i \in 1..(Len(str) - 1) :
          ~(IsAccountIdSeparator(str[i]) /\ IsAccountIdSeparator(str[i + 1]))

\* Mutant of try_from_slice: bytes left over after the last field are dropped.
try_from_slice_IgnoreRest(bytes) ==
    LET claimer == read_string(bytes)
    IN  IF claimer = None THEN None
        ELSE IF ~is_valid_account_id(claimer[1].value) THEN None
        ELSE LET ext_account == read_string(claimer[1].rest)
        IN  IF ext_account = None THEN None
        ELSE LET timestamp == read_u64(ext_account[1].rest)
        IN  IF timestamp = None THEN None
        ELSE LET verified_kyc == read_bool(timestamp[1].rest)
        IN  IF verified_kyc = None THEN None
        ELSE Some([ claimer |-> claimer[1].value,
                    ext_account |-> ext_account[1].value,
                    timestamp |-> timestamp[1].value,
                    verified_kyc |-> verified_kyc[1].value ])

\* VerifiedAccountToken::try_from_slice(): Some(token), or None for an Err.
\* Bytes left over after the last field are an error.
try_from_slice(bytes) ==
    LET claimer == read_string(bytes)
    IN  IF claimer = None THEN None
        ELSE IF ~is_valid_account_id(claimer[1].value) THEN None
        ELSE LET ext_account == read_string(claimer[1].rest)
        IN  IF ext_account = None THEN None
        ELSE LET timestamp == read_u64(ext_account[1].rest)
        IN  IF timestamp = None THEN None
        ELSE LET verified_kyc == read_bool(timestamp[1].rest)
        IN  IF verified_kyc = None THEN None
        ELSE IF verified_kyc[1].rest # <<>> THEN None
        ELSE Some([ claimer |-> claimer[1].value,
                    ext_account |-> ext_account[1].value,
                    timestamp |-> timestamp[1].value,
                    verified_kyc |-> verified_kyc[1].value ])

(***************************************************************************)
(* OAuthToken in its Borsh form (verification_provider.rs:374-398). The    *)
(* expires_at instant is held as its i64 nanoseconds, in limbs.            *)
(***************************************************************************)
\* BorshSerialize for OAuthToken: access_token, refresh_token, then
\* expires_at.timestamp_nanos() as an i64, which has the layout of a u64.
oauth_try_to_vec(t) ==
    borsh_string(t.access_token) \o borsh_string(t.refresh_token)
        \o borsh_u64(t.expires_at)

\* BorshDeserialize for OAuthToken, under try_from_slice (line 327):
\* Some(token), or None for an Err. Utc.timestamp_nanos(ts) takes every i64.
oauth_try_from_slice(bytes) ==
    LET access_token == read_string(bytes)
    IN  IF access_token = None THEN None
        ELSE LET refresh_token == read_string(access_token[1].rest)
        IN  IF refresh_token = None THEN None
        ELSE LET ts == read_u64(refresh_token[1].rest)
        IN  IF ts = None THEN None
        ELSE IF ts[1].rest # <<>> THEN None
        ELSE Some([ access_token |-> access_token[1].value,
                    refresh_token |-> refresh_token[1].value,
                    expires_at |-> ts[1].value ])

(***************************************************************************)
(* Base64, the STANDARD engine (main.rs:192-193).                          *)
(***************************************************************************)
\* The STANDARD alphabet: A-Z a-z 0-9 + /, as ASCII bytes.
Base64Char(n) ==
    IF n < 26 THEN 65 + n
    ELSE IF n < 52 THEN 71 + n
    ELSE IF n < 62 THEN n - 4
    ELSE IF n = 62 THEN 43
    ELSE 47

\* The 6-bit value of a character of the alphabet, 64 for any other byte.
Base64Value(c) ==
    IF c \in 65..90 THEN c - 65
    ELSE IF c \in 97..122 THEN c - 71
    ELSE IF c \in 48..57 THEN c + 4
    ELSE IF c = 43 THEN 62
    ELSE IF c = 47 THEN 63
    ELSE 64

\* general_purpose::STANDARD.encode: three bytes to four characters, the
\* last group padded with '='. Character k of the text belongs to group
\* (k - 1) \div 4 and is cut from the three bytes of that group.
base64_encode(bytes) ==
    LET n == Len(bytes)
        At(j) == IF j <= n THEN bytes[j] ELSE 0
        Char(k) ==
            LET q == (k - 1) \div 4
                r == (k - 1) % 4
                b1 == At(3 * q + 1)
                b2 == At(3 * q + 2)
                b3 == At(3 * q + 3)
            IN  IF r = 0 THEN Base64Char(b1 \div 4)
                ELSE IF r = 1 THEN Base64Char((b1 % 4) * 16 + b2 \div 16)
                ELSE IF r = 2 THEN
                    IF 3 * q + 2 > n THEN 61
                    ELSE Base64Char((b2 % 16) * 4 + b3 \div 64)
                ELSE IF 3 * q + 3 > n THEN 61
                ELSE Base64Char(b3 % 64)
    IN  [k \in 1..(4 * ((n + 2) \div 3)) |-> Char(k)]

\* general_purpose::STANDARD.decode: Some(bytes), or None for an Err: the
\* length is a multiple of four, padding is canonical and only at the end,
\* every other byte is of the alphabet, and the bits cut off are zero.
base64_decode(text) ==
    LET n == Len(text)
        pad == IF n >= 1 /\ text[n] = 61
               THEN (IF n >= 2 /\ text[n - 1] = 61 THEN 2 ELSE 1)
               ELSE 0
        Val(k) == Base64Value(text[k])
        Byte(j) ==
            LET q == (j - 1) \div 3
                r == (j - 1) % 3
            IN  IF r = 0 THEN Val(4 * q + 1) * 4 + Val(4 * q + 2) \div 16
                ELSE IF r = 1 THEN (Val(4 * q + 2) % 16) * 16 + Val(4 * q + 3) \div 4
                ELSE (Val(4 * q + 3) % 4) * 64 + Val(4 * q + 4)
    IN  IF n % 4 # 0 THEN None
        ELSE IF \E k \in 1..(n - pad) : Val(k) = 64 THEN None
        ELSE IF pad = 1 /\ Val(n - 1) % 4 # 0 THEN None
        ELSE IF pad = 2 /\ Val(n - 2) % 16 # 0 THEN None
        ELSE Some([j \in 1..(3 * (n \div 4) - pad) |-> Byte(j)])

(***************************************************************************)
(* Signing (main.rs:172-190). The signature scheme is the signing          *)
(* library's; it is modelled as a deterministic function of key and        *)
(* message whose verification recomputes it.                               *)
(***************************************************************************)
\* Bytes of a raw ED25519 signature (Signature::ED25519(s) => s.to_bytes()).
SignatureLength == 64

\* The signing keys a configuration can hold: SecretKey is ED25519 or
\* SECP256K1.
SigningKeys ==
    { [key_type |-> "ED25519", secret |-> 11],
      [key_type |-> "SECP256K1", secret |-> 23] }

\* SecretKey::public_key()
public_key(sk) == [key_type |-> sk.key_type, point |-> (sk.secret * 7 + 3) % 251]

\* A digest of msg[lo..hi]: every byte weighted by its position.
RECURSIVE Digest(_, _, _)
Digest(msg, lo, hi) ==
    IF lo > hi THEN 0
    ELSE IF lo = hi THEN (msg[lo] * (lo + 1)) % 65521
    ELSE LET mid == (lo + hi) \div 2
         IN  (Digest(msg, lo, mid) + Digest(msg, mid + 1, hi)) % 65521

\* The signature bytes of msg under the key: 64 bytes for ED25519, one more
\* (the recovery byte) for SECP256K1.
SignatureBytes(sk, msg) ==
    LET d == Digest(msg, 1, Len(msg))
        n == IF sk.key_type = "ED25519" THEN SignatureLength ELSE SignatureLength + 1
    IN  [i \in 1..n |-> (d * i + sk.secret + i) % 256]

\* SecretKey::sign(&raw_message)
sign(sk, msg) == [key_type |-> sk.key_type, bytes |-> SignatureBytes(sk, msg)]

\* Signature::verify(&self, data, &public_key)
signature_verify(sig, msg, pk) ==
    /\ sig.key_type = pk.key_type
    /\ \E sk \in SigningKeys :
          /\ public_key(sk) = pk
          /\ sig.bytes = SignatureBytes(sk, msg)

\* Signature::from_parts(KeyType::ED25519, bytes), as the verifying side
\* rebuilds the signature (main.rs:243-249): None unless 64 bytes.
signature_from_parts_ed25519(bytes) ==
    IF Len(bytes) = SignatureLength
    THEN Some([key_type |-> "ED25519", bytes |-> bytes])
    ELSE None

\* What sign() may hand back: the signature, or one that does not verify.
\* The handler does not rely on the library here: it re-verifies (line 183).
SignOutcomes(sk, msg) ==
    { sign(sk, msg),
      [sign(sk, msg) EXCEPT !.bytes[1] = (@ + 1) % 256] }

\* Mutant of self_verify: the signature is not re-verified.
self_verify_Skipped(sig, msg, credentials) ==
    IF sig.key_type = "ED25519" THEN Some(sig.bytes) ELSE None

\* Lines 183-190 of create_verified_account_response: Some(raw ED25519
\* signature bytes), or None for Err(AppError::SigningError).
self_verify(sig, msg, credentials) ==
    IF ~signature_verify(sig, msg, public_key(credentials.signing_key)) THEN None
    ELSE IF sig.key_type = "ED25519" THEN Some(sig.bytes)
    ELSE None

(***************************************************************************)
(* The request handler's inputs (main.rs:87-93, 137-140).                  *)
(***************************************************************************)
\* "test.near"
TestNear == <<116, 101, 115, 116, 46, 110, 101, 97, 114>>

\* "test1.test.near"
Test1TestNear ==
    <<116, 101, 115, 116, 49, 46, 116, 101, 115, 116, 46, 110, 101, 97, 114>>

\* "28cda90838b6fa11b629747cf8173edc2d5bc010d1300d544f39cc19d4d69edb"
ImplicitAccount ==
    <<50, 56, 99, 100, 97, 57, 48, 56, 51, 56, 98, 54, 102, 97, 49, 49, 98,
      54, 50, 57, 55, 52, 55, 99, 102, 56, 49, 55, 51, 101, 100, 99, 50,
      100, 53, 98, 99, 48, 49, 48, 100, 49, 51, 48, 48, 100, 53, 52, 52,
      102, 51, 57, 99, 99, 49, 57, 100, 52, 100, 54, 57, 101, 100, 98>>

Claimers == {TestNear, Test1TestNear, ImplicitAccount}

\* FractalTokenKind, by its variant.
FractalTokenKind == {"AuthorizationCode", "OAuth"}

\* VerificationReq
Requests == [claimer : Claimers, fractal_token : FractalTokenKind]

\* AppConfig, the part the handler reads.
Configs ==
    [ allow_named_sub_accounts : BOOLEAN,
      signer : [credentials : [signing_key : SigningKeys]] ]

\* Utc::now().timestamp(): the clock readings of this model, in seconds.
ClockReadings == {0, 1684533462, 2147483647}

\* Mutant of captcha: every token kind yields a captcha token.
captcha_AnyToken(fractal_token) == fractal_token \in {"AuthorizationCode", "OAuth"}

\* FractalTokenKind::captcha(&self): whether a captcha token is present.
captcha(fractal_token) == fractal_token = "AuthorizationCode"

\* is_allowed_named_sub_account(&account_id) (utils.rs:96-105).
is_allowed_named_sub_account(account_id) ==
    Cardinality({i \in 1..Len(account_id) : account_id[i] = 46}) <= 1

\* AppError::from(e) of a failed collaborator call (error.rs:31-45).
CollaboratorErrors == {"TimeoutError", "ReqwestError", "Generic"}

\* Longest verification_cases vector the provider returns to the handler.
MaxFetchedCases == 2

\* The case bodies of the profiles the provider returns to the handler:
\* finished cases of day 1, tagged uniqueness (liveness not passed, as
\* gen_verification_case builds them) or basic+liveness.
FetchedCaseBodies ==
    { b \in CaseBodies :
        /\ b.status = "Done"
        /\ b.updated_at = 1
        /\ \/ b.level = <<"Uniqueness">> /\ ~b.liveness
           \/ b.level = <<"Basic", "Liveness">> }

\* Result<_, AppError>
Ok(v) == [ok |-> TRUE, value |-> v]

Err(e) == [ok |-> FALSE, err |-> e]

\* Mutant of NewVerifiedAccountToken: the timestamp is left at zero.
NewVerifiedAccountToken_NoClock(claimer, vu, now) ==
    [ claimer |-> claimer,
      ext_account |-> vu.user_id,
      timestamp |-> AsU64(0),
      verified_kyc |-> (vu.kyc_status = "Approved") ]

\* Mutant of NewVerifiedAccountToken: every status but Rejected counts.
NewVerifiedAccountToken_NotRejected(claimer, vu, now) ==
    [ claimer |-> claimer,
      ext_account |-> vu.user_id,
      timestamp |-> AsU64(now),
      verified_kyc |-> (vu.kyc_status # "Rejected") ]

\* The VerifiedAccountToken literal of create_verified_account_response
\* (lines 173-178).
NewVerifiedAccountToken(claimer, vu, now) ==
    [ claimer |-> claimer,
      ext_account |-> vu.user_id,
      timestamp |-> AsU64(now),
      verified_kyc |-> (vu.kyc_status = "Approved") ]

\* Mutant of NewSignedResponse: the cleartext status follows the signed
\* boolean, every status but Approved reported as Unavailable.
NewSignedResponse_CollapsedKyc(message_bytes, signature_bytes, vu) ==
    [ m |-> base64_encode(message_bytes),
      sig |-> base64_encode(signature_bytes),
      kyc |-> IF vu.kyc_status = "Approved" THEN "Approved" ELSE "Unavailable" ]

\* The SignedResponse literal (lines 192-201).
NewSignedResponse(message_bytes, signature_bytes, vu) ==
    [ m |-> base64_encode(message_bytes),
      sig |-> base64_encode(signature_bytes),
      kyc |-> vu.kyc_status ]

(***************************************************************************)
(* State.                                                                  *)
(***************************************************************************)
VARIABLES
    pc,             \* position of the handler / of a harness
    config,         \* Option<AppConfig>: the shared configuration
    req,            \* Option<VerificationReq>: the request being served
    calls,          \* the collaborators consulted so far, in order
    user,           \* Option<User>: the profile under evaluation
    fetched_cases,  \* the verification_cases as the provider returned them
    uniqueness,     \* Option<bool>: last result of is_verified_uniqueness
    kyc,            \* Option<KycStatus>: last result of get_kyc_status
    verified_user,  \* Option<VerifiedUser>
    token,          \* Option<VerifiedAccountToken>: the payload built
    raw_message,    \* Option<Vec<u8>>: the encoded payload
    signature,      \* Option<[u8; 64]>: raw_signature_ed25519
    decoded,        \* Option<Option<VerifiedAccountToken>>: try_from_slice result
    response,       \* Option<Result<SignedResponse, AppError>>
    clock,          \* Option<i64>: what Utc::now().timestamp() returned
    app_error,      \* the AppError values under conversion
    http_response,  \* the transport responses they were converted to
    parked,         \* Option: the locals of a request that is not running
    level_parts,    \* the tags the provider joined into a "level" string
    level,          \* Option<String>: the "level" string of a case
    levels          \* Option<Vec<VerificationLevel>>: what it deserialized to

evalVars == <<user, fetched_cases, uniqueness, kyc>>

errVars == <<app_error, http_response>>

parseVars == <<level_parts, level, levels>>

\* What a step of the running request leaves alone.
offVars == <<errVars, parked, parseVars>>

reqVars ==
    <<config, req, calls, verified_user, signature, response, clock, offVars>>

codecVars == <<token, raw_message, decoded>>

vars == <<pc, evalVars, reqVars, codecVars>>

(***************************************************************************)
(* Evaluator harness: the loops of test_user_verify_uniqueness and         *)
(* test_user_get_kyc_status, over every user within the bounds.            *)
(***************************************************************************)
\* The verification_cases vector of the given case bodies; the case at
\* position i carries id i.
CaseVector(bodies) == [i \in 1..Len(bodies) |-> VerificationCase(i, bodies[i])]

\* gen_user(verification_cases)
gen_user(uuid, cases) ==
    [ uid |-> ExternalAccountIdFromUuid(uuid), verification_cases |-> cases ]

\* Nothing of a request is in flight.
NoRequest ==
    /\ config = None
    /\ req = None
    /\ calls = <<>>
    /\ verified_user = None
    /\ signature = None
    /\ response = None
    /\ clock = None
    /\ app_error = None
    /\ http_response = None
    /\ parked = None
    /\ level_parts = <<>> /\ level = None /\ levels = None

InitEval ==
    /\ pc = "eval_fetched"
    /\ \E n \in 0..MaxCases : \E bodies \in [1..n -> CaseBodies] :
          /\ user = Some(gen_user(NilUuid, CaseVector(bodies)))
          /\ fetched_cases = CaseVector(bodies)
    /\ uniqueness = None
    /\ kyc = None
    /\ NoRequest
    /\ token = None /\ raw_message = None /\ decoded = None

\* let result = input.is_verified_uniqueness();
TestIsVerifiedUniqueness ==
    /\ pc = "eval_fetched"
    /\ pc' = "eval_uniqueness"
    /\ uniqueness' = Some(is_verified_uniqueness(user[1]))
    /\ UNCHANGED <<user, fetched_cases, kyc, reqVars, codecVars>>

\* let result = input.get_kyc_status();
TestGetKycStatus ==
    /\ pc = "eval_uniqueness"
    /\ pc' = "eval_kyc"
    /\ kyc' = Some(get_kyc_status(user[1]))
    /\ user' = Some(AfterGetKycStatus(user[1]))
    /\ UNCHANGED <<fetched_cases, uniqueness, reqVars, codecVars>>

NextEval == TestIsVerifiedUniqueness \/ TestGetKycStatus

SpecEval == InitEval /\ [][NextEval]_vars

(***************************************************************************)
(* The request handler: verify (main.rs:137-164), FractalClient::verify    *)
(* (verification_provider.rs:175-239) and create_verified_account_response *)
(* (main.rs:167-202), one request from its arrival to its response.        *)
(***************************************************************************)
Init ==
    /\ pc = "start"
    /\ \E c \in Configs : config = Some(c)
    /\ \E r \in Requests : req = Some(r)
    /\ calls = <<>>
    /\ user = None
    /\ fetched_cases = <<>>
    /\ uniqueness = None
    /\ kyc = None
    /\ verified_user = None
    /\ token = None
    /\ raw_message = None
    /\ signature = None
    /\ decoded = None
    /\ response = None
    /\ clock = None
    /\ app_error = None
    /\ http_response = None
    /\ parked = None
    /\ level_parts = <<>> /\ level = None /\ levels = None

\* return Err(e) from the handler.
Reject(e) ==
    /\ response' = Some(Err(e))
    /\ pc' = "done"

\* main.rs:143-145: the named sub-account gate.
CheckSubAccount ==
    /\ pc = "start"
    /\ IF /\ ~config[1].allow_named_sub_accounts
          /\ ~is_allowed_named_sub_account(req[1].claimer)
       THEN Reject("NotAllowedNamedSubAccount")
       ELSE pc' = "captcha" /\ UNCHANGED response
    /\ UNCHANGED <<config, req, clock, offVars, calls, verified_user, signature, evalVars, codecVars>>

\* main.rs:147: the token carries no captcha, the client is not consulted.
SkipCaptcha ==
    /\ pc = "captcha"
    /\ ~captcha(req[1].fractal_token)
    /\ pc' = "provider"
    /\ UNCHANGED <<evalVars, reqVars, codecVars>>

\* main.rs:148-158: state.captcha.verify(captcha_token).await, whose
\* outcome is Ok(true), Ok(false) or Err(e).
VerifyCaptcha ==
    /\ pc = "captcha"
    /\ captcha(req[1].fractal_token)
    /\ calls' = Append(calls, "captcha")
    /\ \E outcome \in {Ok(TRUE), Ok(FALSE)} \cup {Err(e) : e \in CollaboratorErrors} :
          IF outcome = Ok(TRUE) THEN pc' = "provider" /\ UNCHANGED response
          ELSE IF outcome = Ok(FALSE) THEN Reject("SuspiciousUser")
          ELSE Reject(outcome.err)
    /\ UNCHANGED <<config, req, clock, offVars, verified_user, signature, evalVars, codecVars>>

\* verification_provider.rs:221-225: fetch_user exchanges an authorization
\* code for an OAuth token (acquire_oauth_token, lines 192-219); an OAuth
\* token is used as it is.
AcquireOAuthToken ==
    /\ pc = "provider"
    /\ IF req[1].fractal_token = "AuthorizationCode"
       THEN /\ calls' = Append(calls, "provider")
            /\ \/ pc' = "user_request" /\ UNCHANGED response
               \/ \E e \in CollaboratorErrors : Reject(e)
       ELSE pc' = "user_request" /\ UNCHANGED <<calls, response>>
    /\ UNCHANGED <<config, req, clock, offVars, verified_user, signature, evalVars, codecVars>>

\* verification_provider.rs:230-238 and 185-188: the profile request fails.
FetchUserErr ==
    /\ pc = "user_request"
    /\ calls' = Append(calls, "provider")
    /\ \E e \in {"TimeoutError", "ReqwestError"} : Reject(e)
    /\ UNCHANGED <<config, req, clock, offVars, verified_user, signature, evalVars, codecVars>>

\* verification_provider.rs:230-238: the profile request returns a User,
\* whose uid deserializes from the provider's string (line 66); the provider
\* answers with one of the uids and with up to max_cases of the bodies.
FetchUserOkFrom(uids, max_cases, bodies_offered) ==
    /\ pc = "user_request"
    /\ calls' = Append(calls, "provider")
    /\ \E uid_str \in uids :
          LET uid == de_external_account_id_from_uuid(uid_str)
          IN  /\ uid # None
              /\ \E n \in 0..max_cases : \E bodies \in [1..n -> bodies_offered] :
                    /\ user' = Some([ uid |-> uid[1],
                                      verification_cases |-> CaseVector(bodies) ])
                    /\ fetched_cases' = CaseVector(bodies)
    /\ pc' = "fetched"
    /\ UNCHANGED <<config, req, clock, offVars, verified_user, signature, response,
                   uniqueness, kyc, codecVars>>

FetchUserOk == FetchUserOkFrom(ProviderUids, MaxFetchedCases, FetchedCaseBodies)

\* verification_provider.rs:179-184: the match of FractalClient::verify on
\* the fetched user, and the `?` of main.rs:161.
ClientVerify ==
    /\ pc = "fetched"
    /\ uniqueness' = Some(is_verified_uniqueness(user[1]))
    /\ IF is_verified_uniqueness(user[1])
       THEN /\ kyc' = Some(get_kyc_status(user[1]))
            /\ user' = Some(AfterGetKycStatus(user[1]))
            /\ verified_user' = Some([ kyc_status |-> get_kyc_status(user[1]),
                                       user_id |-> user[1].uid ])
            /\ pc' = "verified"
            /\ UNCHANGED response
       ELSE /\ Reject("UserUniquenessNotVerified")
            /\ UNCHANGED <<kyc, user, verified_user>>
    /\ UNCHANGED <<config, req, clock, offVars, calls, signature, fetched_cases, codecVars>>

\* main.rs:172-180: the payload is built, the clock read (one of the
\* readings), the payload encoded. try_to_vec into a Vec does not fail.
BuildPayloadAt(readings) ==
    /\ pc = "verified"
    /\ calls' = Append(calls, "clock")
    /\ \E now \in readings :
          /\ clock' = Some(now)
          /\ token' = Some(NewVerifiedAccountToken(req[1].claimer, verified_user[1], now))
          /\ raw_message' =
                Some(try_to_vec(NewVerifiedAccountToken(req[1].claimer, verified_user[1], now)))
    /\ pc' = "built"
    /\ UNCHANGED <<config, req, offVars, verified_user, signature, response, decoded, evalVars>>

BuildPayload == BuildPayloadAt(ClockReadings)

\* main.rs:181-190: sign, re-verify, take the raw ED25519 signature.
SignMessage ==
    /\ pc = "built"
    /\ \E sig \in SignOutcomes(config[1].signer.credentials.signing_key, raw_message[1]) :
          LET raw == self_verify(sig, raw_message[1], config[1].signer.credentials)
          IN  IF raw = None
              THEN Reject("SigningError") /\ UNCHANGED signature
              ELSE signature' = raw /\ pc' = "signed" /\ UNCHANGED response
    /\ UNCHANGED <<config, req, clock, offVars, calls, verified_user, evalVars, codecVars>>

\* main.rs:192-201: the response is assembled and returned.
Assemble ==
    /\ pc = "signed"
    /\ response' = Some(Ok(NewSignedResponse(raw_message[1], signature[1], verified_user[1])))
    /\ pc' = "done"
    /\ UNCHANGED <<config, req, clock, offVars, calls, verified_user, signature, evalVars, codecVars>>

Next ==
    \/ CheckSubAccount
    \/ SkipCaptcha
    \/ VerifyCaptcha
    \/ AcquireOAuthToken
    \/ FetchUserErr
    \/ FetchUserOk
    \/ ClientVerify
    \/ BuildPayload
    \/ SignMessage
    \/ Assemble

Spec == Init /\ [][Next]_vars

(***************************************************************************)
(* Two requests in flight. Each request is a task running verify; what the *)
(* task holds (its request, its locals, its position) is its own, the      *)
(* configuration is the one in AppState. The variables hold the request    *)
(* that is running, parked the other one, and the scheduler may let the    *)
(* other one run between any two steps.                                    *)
(***************************************************************************)
\* Longest verification_cases vector the provider returns in this setting.
MaxConcCases == 1

\* The requests in flight: test.near with an authorization code,
\* test1.test.near with an OAuth token.
ConcRequests ==
    { [claimer |-> TestNear, fractal_token |-> "AuthorizationCode"],
      [claimer |-> Test1TestNear, fractal_token |-> "OAuth"] }

\* The case bodies of the profiles returned in this setting: an approved,
\* finished case tagged uniqueness alone or uniqueness+basic+liveness.
ConcCaseBodies ==
    { b \in CaseBodies :
        /\ b.status = "Done"
        /\ b.credential = "Approved"
        /\ b.updated_at = 1
        /\ b.liveness
        /\ b.level \in {<<"Uniqueness">>, <<"Uniqueness", "Basic", "Liveness">>} }

\* What the task of the running request holds.
TaskLocals ==
    [ pc |-> pc, req |-> req, calls |-> calls, user |-> user,
      fetched_cases |-> fetched_cases, uniqueness |-> uniqueness, kyc |-> kyc,
      verified_user |-> verified_user, token |-> token,
      raw_message |-> raw_message, signature |-> signature,
      response |-> response, clock |-> clock ]

\* The task of a request that has arrived and has not run yet.
Arrived(r) ==
    [ pc |-> "start", req |-> Some(r), calls |-> <<>>, user |-> None,
      fetched_cases |-> <<>>, uniqueness |-> None, kyc |-> None,
      verified_user |-> None, token |-> None, raw_message |-> None,
      signature |-> None, response |-> None, clock |-> None ]

\* Mutant of Resume: the fetched user is kept in one place for all tasks.
Resume_SharedUser(l) ==
    /\ pc' = l.pc /\ req' = l.req /\ calls' = l.calls /\ user' = user
    /\ fetched_cases' = l.fetched_cases /\ uniqueness' = l.uniqueness
    /\ kyc' = l.kyc /\ verified_user' = l.verified_user /\ token' = l.token
    /\ raw_message' = l.raw_message /\ signature' = l.signature
    /\ response' = l.response /\ clock' = l.clock

\* The task holding l runs on: its locals are the ones the steps act on.
Resume(l) ==
    /\ pc' = l.pc /\ req' = l.req /\ calls' = l.calls /\ user' = l.user
    /\ fetched_cases' = l.fetched_cases /\ uniqueness' = l.uniqueness
    /\ kyc' = l.kyc /\ verified_user' = l.verified_user /\ token' = l.token
    /\ raw_message' = l.raw_message /\ signature' = l.signature
    /\ response' = l.response /\ clock' = l.clock

InitConc ==
    /\ pc = "start"
    /\ \E c \in Configs : config = Some(c)
    /\ \E r \in ConcRequests : req = Some(r)
    /\ \E r \in ConcRequests : parked = Some(Arrived(r))
    /\ calls = <<>>
    /\ user = None
    /\ fetched_cases = <<>>
    /\ uniqueness = None
    /\ kyc = None
    /\ verified_user = None
    /\ token = None
    /\ raw_message = None
    /\ signature = None
    /\ decoded = None
    /\ response = None
    /\ clock = None
    /\ app_error = <<>>
    /\ http_response = <<>>
    /\ level_parts = <<>> /\ level = None /\ levels = None

\* The scheduler lets the other request run: the running task is set aside
\* with what it holds, the other one goes on where it was.
Switch ==
    /\ parked # None
    /\ parked' = Some(TaskLocals)
    /\ Resume(parked[1])
    /\ UNCHANGED <<config, decoded, errVars, parseVars>>

FetchUserOkConc == FetchUserOkFrom({TestUidUpper, NilUidBraced}, MaxConcCases, ConcCaseBodies)

BuildPayloadConc == BuildPayloadAt({0, 1684533462})

NextConc ==
    \/ CheckSubAccount
    \/ SkipCaptcha
    \/ VerifyCaptcha
    \/ AcquireOAuthToken
    \/ FetchUserErr
    \/ FetchUserOkConc
    \/ ClientVerify
    \/ BuildPayloadConc
    \/ SignMessage
    \/ Assemble
    \/ Switch

SpecConc == InitConc /\ [][NextConc]_vars

(***************************************************************************)
(* The handler on the claimers of test_is_allowed_named_sub_account and    *)
(* on an account of another root.                                          *)
(***************************************************************************)
\* "test.testnet"
TestTestnet == <<116, 101, 115, 116, 46, 116, 101, 115, 116, 110, 101, 116>>

\* AccountId values a request may carry as its claimer.
GateClaimers == Claimers \cup {TestTestnet}

InitGate ==
    /\ pc = "start"
    /\ \E c \in Configs : config = Some(c)
    /\ \E r \in [claimer : GateClaimers, fractal_token : FractalTokenKind] : req = Some(r)
    /\ calls = <<>>
    /\ user = None
    /\ fetched_cases = <<>>
    /\ uniqueness = None
    /\ kyc = None
    /\ verified_user = None
    /\ token = None
    /\ raw_message = None
    /\ signature = None
    /\ decoded = None
    /\ response = None
    /\ clock = None
    /\ app_error = None
    /\ http_response = None
    /\ parked = None
    /\ level_parts = <<>> /\ level = None /\ levels = None

SpecGate == InitGate /\ [][Next]_vars

(***************************************************************************)
(* Codec harness: try_to_vec and try_from_slice as                         *)
(* test_account_id_uuid_borsh_serde applies them (main.rs:306-326), over   *)
(* every payload within the bounds.                                        *)
(***************************************************************************)
\* u64 timestamps, as limbs: 0, 1684533462, 2^32, 2^63 and u64::MAX.
Timestamps ==
    { AsU64(0), AsU64(1684533462), <<0, 0, 1, 0>>, <<0, 0, 0, 32768>>, AsU64(-1) }

\* "ab": a shortest account id.
ShortAccount == <<97, 98>>

Payloads ==
    [ claimer : Claimers \cup {ShortAccount},
      ext_account : {ExternalAccountIdFromUuid(u) : u \in Uuids},
      timestamp : Timestamps,
      verified_kyc : BOOLEAN ]

\* "some_auth_token" (verification_provider.rs:436)
SomeAuthToken ==
    <<115, 111, 109, 101, 95, 97, 117, 116, 104, 95, 116, 111, 107, 101, 110>>

\* "some_refresh_token" (verification_provider.rs:437)
SomeRefreshToken ==
    <<115, 111, 109, 101, 95, 114, 101, 102, 114, 101, 115, 104, 95, 116, 111,
      107, 101, 110>>

\* OAuthToken values: expires_at 0, 1543592306000000000 (line 426) and -1.
OAuthTokens ==
    [ access_token : {<<>>, SomeAuthToken},
      refresh_token : {<<>>, SomeRefreshToken},
      expires_at : { AsU64(0), <<62464, 9511, 61702, 5483>>, AsU64(-1) } ]

\* Bytes a caller may send after an encoding.
ExtraBytes == { <<0>>, <<1>>, <<255>>, <<0, 0, 0, 0>>, <<2, 0, 0, 0, 97, 98>> }

InitCodec ==
    /\ \/ pc = "codec_start" /\ \E t \in Payloads : token = Some(t)
       \/ pc = "oauth_start" /\ \E t \in OAuthTokens : token = Some(t)
    /\ raw_message = None
    /\ decoded = None
    /\ user = None /\ fetched_cases = <<>> /\ uniqueness = None /\ kyc = None
    /\ NoRequest

\* .try_to_vec().unwrap()
Encode ==
    /\ pc = "codec_start"
    /\ raw_message' = Some(try_to_vec(token[1]))
    /\ pc' = "codec_encoded"
    /\ UNCHANGED <<token, decoded, evalVars, reqVars>>

\* VerifiedAccountToken::try_from_slice(serialized.as_slice())
Decode ==
    /\ pc = "codec_encoded"
    /\ decoded' = Some(try_from_slice(raw_message[1]))
    /\ pc' = "codec_decoded"
    /\ UNCHANGED <<token, raw_message, evalVars, reqVars>>

\* self.try_to_vec() of Serialize for OAuthToken
\* (verification_provider.rs:365-367).
EncodeOAuth ==
    /\ pc = "oauth_start"
    /\ raw_message' = Some(oauth_try_to_vec(token[1]))
    /\ pc' = "oauth_encoded"
    /\ UNCHANGED <<token, decoded, evalVars, reqVars>>

\* The bytes reaching a decoder are the caller's (the base64 text of the
\* request, verification_provider.rs:319-325): here a proper prefix of an
\* encoding.
Truncate ==
    /\ pc \in {"codec_encoded", "oauth_encoded"}
    /\ \E k \in 0..(Len(raw_message[1]) - 1) :
          raw_message' = Some(SubSeq(raw_message[1], 1, k))
    /\ pc' = IF pc = "codec_encoded" THEN "codec_malformed" ELSE "oauth_malformed"
    /\ UNCHANGED <<token, decoded, evalVars, reqVars>>

\* The bytes reaching a decoder: an encoding followed by extra bytes.
Extend ==
    /\ pc \in {"codec_encoded", "oauth_encoded"}
    /\ \E extra \in ExtraBytes : raw_message' = Some(raw_message[1] \o extra)
    /\ pc' = IF pc = "codec_encoded" THEN "codec_malformed" ELSE "oauth_malformed"
    /\ UNCHANGED <<token, decoded, evalVars, reqVars>>

\* VerifiedAccountToken::try_from_slice on the caller's bytes.
DecodeMalformed ==
    /\ pc = "codec_malformed"
    /\ decoded' = Some(try_from_slice(raw_message[1]))
    /\ pc' = "codec_malformed_decoded"
    /\ UNCHANGED <<token, raw_message, evalVars, reqVars>>

\* OAuthToken::try_from_slice(&raw) (verification_provider.rs:327).
DecodeOAuth ==
    /\ pc \in {"oauth_encoded", "oauth_malformed"}
    /\ decoded' = Some(oauth_try_from_slice(raw_message[1]))
    /\ pc' = IF pc = "oauth_encoded" THEN "oauth_decoded" ELSE "oauth_malformed_decoded"
    /\ UNCHANGED <<token, raw_message, evalVars, reqVars>>

NextCodec ==
    \/ Encode
    \/ Decode
    \/ EncodeOAuth
    \/ Truncate
    \/ Extend
    \/ DecodeMalformed
    \/ DecodeOAuth

SpecCodec == InitCodec /\ [][NextCodec]_vars

(***************************************************************************)
(* AppError and its transport form (error.rs). An AppError is a record of  *)
(* its variant and of what the variant carries.                            *)
(***************************************************************************)
\* StatusCode::UNAUTHORIZED
UNAUTHORIZED == 401

\* StatusCode::INTERNAL_SERVER_ERROR
INTERNAL_SERVER_ERROR == 500

\* The variants that carry nothing (error.rs:6-9).
SigningError == [kind |-> "SigningError"]

UserNotVerified == [kind |-> "UserNotVerified"]

\* The strings the program turns into errors (verification_provider.rs:
\* 216-217).
ErrorStrings == {"Unsupported token type", "Failed to parse token response"}

\* reqwest::Error, by what the conversion reads of it.
ReqwestErrors ==
    [ is_timeout : BOOLEAN,
      text : {"error sending request", "error decoding response body"} ]

\* impl From<String> for AppError
AppErrorFromString(error_str) == [kind |-> "Generic", detail |-> error_str]

\* impl From<reqwest::Error> for AppError
AppErrorFromReqwest(e) ==
    IF e.is_timeout THEN [kind |-> "TimeoutError", detail |-> e.text]
    ELSE [kind |-> "ReqwestError", detail |-> e]

\* Mutant of into_response: a timeout is reported as 504 Gateway Timeout.
into_response_TimeoutStatus(e) ==
    IF e.kind = "SigningError"
    THEN [status |-> INTERNAL_SERVER_ERROR, body |-> [error |-> "Internal server error"]]
    ELSE IF e.kind = "UserNotVerified"
    THEN [status |-> UNAUTHORIZED, body |-> [error |-> "User didn't pass verification"]]
    ELSE IF e.kind = "TimeoutError"
    THEN [status |-> 504, body |-> [error |-> "User verification failure"]]
    ELSE [status |-> UNAUTHORIZED, body |-> [error |-> "User verification failure"]]

\* impl IntoResponse for AppError: the status and the JSON body.
into_response(e) ==
    IF e.kind = "SigningError"
    THEN [status |-> INTERNAL_SERVER_ERROR, body |-> [error |-> "Internal server error"]]
    ELSE IF e.kind = "UserNotVerified"
    THEN [status |-> UNAUTHORIZED, body |-> [error |-> "User didn't pass verification"]]
    ELSE [status |-> UNAUTHORIZED, body |-> [error |-> "User verification failure"]]

(***************************************************************************)
(* Error harness: two requests fail, each with an AppError built the way   *)
(* the program builds them, and each error is converted for transport.     *)
(***************************************************************************)
\* How many failures are converted side by side.
Failures == 2

InitError ==
    /\ pc = "err_start"
    /\ app_error = <<>>
    /\ http_response = None
    /\ parked = None
    /\ level_parts = <<>> /\ level = None /\ levels = None
    /\ config = None /\ req = None /\ calls = <<>> /\ verified_user = None
    /\ signature = None /\ response = None /\ clock = None
    /\ user = None /\ fetched_cases = <<>> /\ uniqueness = None /\ kyc = None
    /\ token = None /\ raw_message = None /\ decoded = None

\* The error app_error grows by; Failures of them end the raising.
Raise(e) ==
    /\ pc = "err_start"
    /\ app_error' = Append(app_error, e)
    /\ pc' = IF Len(app_error) + 1 = Failures THEN "err_raised" ELSE "err_start"
    /\ UNCHANGED <<http_response, config, req, calls, verified_user, signature,
                   response, clock, parked, parseVars, evalVars, codecVars>>

\* Err(AppError::SigningError) (main.rs:184) and the like: a variant that
\* carries nothing, named where the failure is found.
RaiseVariant == \E e \in {SigningError, UserNotVerified} : Raise(e)

\* Err(format!(..).into()) (verification_provider.rs:216-217)
RaiseFromString == \E error_str \in ErrorStrings : Raise(AppErrorFromString(error_str))

\* .await? and .map_err(AppError::from) on a reqwest::Error
\* (verification_provider.rs:210-212, 234-237)
RaiseFromReqwest == \E e \in ReqwestErrors : Raise(AppErrorFromReqwest(e))

\* The handler's Err(e) leaves through e.into_response().
IntoResponse ==
    /\ pc = "err_raised"
    /\ http_response' = [i \in 1..Len(app_error) |-> into_response(app_error[i])]
    /\ pc' = "err_responded"
    /\ UNCHANGED <<app_error, config, req, calls, verified_user, signature,
                   response, clock, parked, parseVars, evalVars, codecVars>>

NextError == RaiseVariant \/ RaiseFromString \/ RaiseFromReqwest \/ IntoResponse

SpecError == InitError /\ [][NextError]_vars

(***************************************************************************)
(* The "level" strings of the provider, deserialized                       *)
(* (verification_provider.rs:100-101).                                     *)
(***************************************************************************)
\* Most tags the provider joins into one "level" string.
MaxLevelParts == 2

\* What the provider writes between the '+' signs: the names of the
\* variants, a name the enum does not have, a name in another case, nothing.
LevelParts ==
    {LevelName(l) : l \in VerificationLevel} \cup {<<119, 97, 108, 108, 101, 116>>, <<66, 97, 115, 105, 99>>, <<>>}

\* The parts joined by '+'.
RECURSIVE JoinedByPlus(_)
JoinedByPlus(parts) ==
    IF Len(parts) = 1 THEN parts[1]
    ELSE parts[1] \o <<43>> \o JoinedByPlus(Tail(parts))

InitLevels ==
    /\ pc = "level_start"
    /\ \E n \in 1..MaxLevelParts : \E parts \in [1..n -> LevelParts] :
          /\ level_parts = parts
          /\ level = Some(JoinedByPlus(parts))
    /\ levels = None
    /\ config = None /\ req = None /\ calls = <<>> /\ verified_user = None
    /\ signature = None /\ response = None /\ clock = None
    /\ app_error = None /\ http_response = None /\ parked = None
    /\ user = None /\ fetched_cases = <<>> /\ uniqueness = None /\ kyc = None
    /\ token = None /\ raw_message = None /\ decoded = None

\* #[serde(deserialize_with = "utils::de_strings_joined_by_plus")]
DeserializeLevel ==
    /\ pc = "level_start"
    /\ levels' = Some(de_strings_joined_by_plus(level[1]))
    /\ pc' = "level_parsed"
    /\ UNCHANGED <<level_parts, level, config, req, calls, verified_user, signature,
                   response, clock, errVars, parked, evalVars, codecVars>>

NextLevels == DeserializeLevel

SpecLevels == InitLevels /\ [][NextLevels]_vars

(***************************************************************************)
(* Vocabulary of the claims about the evaluator.                           *)
(***************************************************************************)
\* The level-tag set of a case.
LevelSet(case) == {case.level[j] : j \in 1..Len(case.level)}

\* A case survives the eligibility filtering of the KYC resolution.
KycEligible(case) ==
    /\ {"Basic", "Liveness"} \subseteq LevelSet(case)
    /\ case.details.liveness = TRUE

EligibleIdx(cases) == {i \in 1..Len(cases) : KycEligible(cases[i])}

\* The collection without its i-th case.
RemoveAt(cases, i) == SubSeq(cases, 1, i - 1) \o SubSeq(cases, i + 1, Len(cases))

\* get_kyc_status on the fetched collection without its i-th case.
KycWithout(i) == get_kyc_status([verification_cases |-> RemoveAt(fetched_cases, i)])

\* C1: the uniqueness decision is true iff at least one case has a level-tag
\* set containing Uniqueness, status Done and credential Approved; nothing
\* else about that case matters.
C1_UniquenessIff ==
    uniqueness # None =>
        (uniqueness[1] <=>
            \E i \in 1..Len(fetched_cases) :
                /\ "Uniqueness" \in LevelSet(fetched_cases[i])
                /\ fetched_cases[i].status = "Done"
                /\ fetched_cases[i].credential = "Approved")

\* C1 witness: uniqueness passed on a case that carries other tags too and
\* whose liveness flag is false.
C1_Witness ==
    /\ uniqueness = Some(TRUE)
    /\ Len(fetched_cases) = 1
    /\ fetched_cases[1].level = <<"Uniqueness", "Basic", "Liveness">>
    /\ fetched_cases[1].details.liveness = FALSE

\* C2: if at least one KYC-eligible case is Approved, get_kyc_status returns
\* Approved whatever the update times and credentials of the other cases.
C2_ApprovalSticky ==
    (kyc # None /\ \E i \in EligibleIdx(fetched_cases) :
                        fetched_cases[i].credential = "Approved")
        => kyc = Some("Approved")

\* C2 witness: an approval of day 1 next to an eligible rejection of day 2.
C2_Witness ==
    /\ kyc = Some("Approved")
    /\ \E i, j \in EligibleIdx(fetched_cases) :
          /\ fetched_cases[i].credential = "Approved"
          /\ fetched_cases[j].credential = "Rejected"
          /\ fetched_cases[i].updated_at < fetched_cases[j].updated_at

\* C3: with no eligible Approved case and at least one eligible case, the
\* result is the mapped credential of an eligible case of greatest updated_at
\* among the eligible ones; ineligible cases do not take part.
C3_MostRecentEligible ==
    (/\ kyc # None
     /\ EligibleIdx(fetched_cases) # {}
     /\ \A i \in EligibleIdx(fetched_cases) : fetched_cases[i].credential # "Approved")
        => \E i \in EligibleIdx(fetched_cases) :
              /\ \A j \in EligibleIdx(fetched_cases) :
                    fetched_cases[j].updated_at <= fetched_cases[i].updated_at
              /\ kyc[1] = fetched_cases[i].credential
              /\ kyc[1] \in {"Pending", "Rejected"}

\* C3 witness: the result is the credential of the most recent eligible case
\* although an ineligible case of another credential is more recent still.
C3_Witness ==
    /\ kyc = Some("Pending")
    /\ Len(fetched_cases) = 2
    /\ ~KycEligible(fetched_cases[1])
    /\ fetched_cases[1].credential = "Rejected"
    /\ KycEligible(fetched_cases[2])
    /\ fetched_cases[1].updated_at > fetched_cases[2].updated_at

\* C4: the evaluator is total, get_kyc_status returns Unavailable iff no case
\* survives the eligibility filtering, and the empty collection yields
\* uniqueness-failed and Unavailable.
C4_UnavailableIffNoneEligible ==
    /\ pc = "eval_uniqueness" => uniqueness \in {Some(TRUE), Some(FALSE)}
    /\ pc = "eval_kyc" =>
          /\ kyc # None /\ kyc[1] \in KycStatus
          /\ (kyc[1] = "Unavailable" <=> EligibleIdx(fetched_cases) = {})
          /\ fetched_cases = <<>> => (uniqueness = Some(FALSE) /\ kyc = Some("Unavailable"))

\* C4 witness: the empty collection, evaluated.
C4_Witness ==
    /\ pc = "eval_kyc"
    /\ fetched_cases = <<>>
    /\ uniqueness = Some(FALSE)
    /\ kyc = Some("Unavailable")

\* C5: a case whose tag set lacks Basic or lacks Liveness is ignored by
\* get_kyc_status: the status of a collection equals the status of the
\* collection without that case.
C5_LevelTagGating ==
    kyc # None =>
        \A i \in 1..Len(fetched_cases) :
            ~({"Basic", "Liveness"} \subseteq LevelSet(fetched_cases[i]))
                => KycWithout(i) = kyc[1]

\* C5 witness: a case tagged only basic, Approved with liveness = true, the
\* most recent of the collection, and the status is not Approved.
C5_Witness ==
    /\ kyc = Some("Rejected")
    /\ Len(fetched_cases) = 2
    /\ fetched_cases[1].level = <<"Basic">>
    /\ fetched_cases[1].credential = "Approved"
    /\ fetched_cases[1].details.liveness = TRUE
    /\ fetched_cases[1].updated_at > fetched_cases[2].updated_at

\* C6: a case tagged basic+liveness whose details report liveness = false is
\* ignored by get_kyc_status whatever its credential, and when every
\* basic+liveness case is such a case the result is Unavailable.
C6_LivenessGating ==
    kyc # None =>
        /\ \A i \in 1..Len(fetched_cases) :
              (/\ {"Basic", "Liveness"} \subseteq LevelSet(fetched_cases[i])
               /\ fetched_cases[i].details.liveness = FALSE)
                  => KycWithout(i) = kyc[1]
        /\ (\A i \in 1..Len(fetched_cases) :
              {"Basic", "Liveness"} \subseteq LevelSet(fetched_cases[i])
                  => fetched_cases[i].details.liveness = FALSE)
              => kyc[1] = "Unavailable"

\* C6 witness: the only basic+liveness case is Approved with liveness = false
\* and the result is Unavailable.
C6_Witness ==
    /\ kyc = Some("Unavailable")
    /\ Len(fetched_cases) = 1
    /\ fetched_cases[1].level = <<"Basic", "Liveness">>
    /\ fetched_cases[1].credential = "Approved"
    /\ fetched_cases[1].details.liveness = FALSE


(***************************************************************************)
(* Claims about the request handler and the codec.                         *)
(***************************************************************************)
\* Some case of the fetched profile is tagged uniqueness, Done and Approved.
FetchedPassesUniqueness ==
    \E i \in 1..Len(fetched_cases) :
        /\ "Uniqueness" \in LevelSet(fetched_cases[i])
        /\ fetched_cases[i].status = "Done"
        /\ fetched_cases[i].credential = "Approved"

\* The handler has returned Ok(SignedResponse).
Responded == response # None /\ response[1].ok

\* C7: FractalClient::verify yields a VerifiedUser only for a profile that
\* passes the uniqueness decision; for any other fetched profile the outcome
\* is UserUniquenessNotVerified, the KYC status is not evaluated and no
\* payload is built, encoded or signed.
C7_UniquenessGating ==
    /\ (verified_user # None \/ Responded) => FetchedPassesUniqueness
    /\ (user # None /\ pc # "fetched" /\ ~FetchedPassesUniqueness) =>
          /\ response = Some(Err("UserUniquenessNotVerified"))
          /\ kyc = None
          /\ verified_user = None
          /\ token = None
          /\ raw_message = None
          /\ signature = None
          /\ \A i \in 1..Len(calls) : calls[i] # "clock"

\* C7 witness: a request rejected for uniqueness although the profile holds
\* a KYC-eligible Approved case.
C7_Witness ==
    /\ pc = "done"
    /\ response = Some(Err("UserUniquenessNotVerified"))
    /\ \E i \in EligibleIdx(fetched_cases) : fetched_cases[i].credential = "Approved"

\* C8: the verified_kyc field of every payload built, and of every payload
\* returned signed, is true iff the verified user's KYC status is Approved.
C8_BooleanCollapse ==
    /\ (pc \in {"built", "signed", "done"} /\ token # None) =>
          (token[1].verified_kyc <=> verified_user[1].kyc_status = "Approved")
    /\ Responded =>
          LET bytes == base64_decode(response[1].value.m)
          IN  /\ bytes # None
              /\ try_from_slice(bytes[1]) # None
              /\ try_from_slice(bytes[1])[1].verified_kyc
                    <=> (verified_user[1].kyc_status = "Approved")

\* C8 witness: a signed response for a user whose KYC status is Pending,
\* carrying verified_kyc = false.
C8_Witness ==
    /\ Responded
    /\ verified_user[1].kyc_status = "Pending"
    /\ token[1].verified_kyc = FALSE

\* C9: a SignedResponse is returned only if the signature produced is a raw
\* ED25519 signature that verifies over the encoded message under the
\* configured key's public key; otherwise the outcome is SigningError with
\* no message or signature. The decoded sig of every response verifies over
\* the decoded m.
C9_SignThenSelfVerify ==
    /\ Responded =>
          LET m == base64_decode(response[1].value.m)
              sig == base64_decode(response[1].value.sig)
          IN  /\ m # None /\ sig # None
              /\ m[1] = raw_message[1]
              /\ Len(sig[1]) = SignatureLength
              /\ config[1].signer.credentials.signing_key.key_type = "ED25519"
              /\ signature_from_parts_ed25519(sig[1]) # None
              /\ signature_verify(signature_from_parts_ed25519(sig[1])[1], m[1],
                                  public_key(config[1].signer.credentials.signing_key))
    /\ (pc = "done" /\ raw_message # None /\ ~Responded) =>
          /\ response = Some(Err("SigningError"))
          /\ signature = None

\* C9 witness: under an ED25519 key the signature handed back did not
\* verify, and the request ended in SigningError.
C9_Witness ==
    /\ pc = "done"
    /\ response = Some(Err("SigningError"))
    /\ config[1].signer.credentials.signing_key.key_type = "ED25519"

\* C10: decoding the canonical encoding of a payload yields a payload equal
\* to it in claimer, ext_account, timestamp and verified_kyc.
C10_RoundTrip ==
    pc = "codec_decoded" =>
        /\ decoded # None /\ decoded[1] # None
        /\ decoded[1][1].claimer = token[1].claimer
        /\ decoded[1][1].ext_account = token[1].ext_account
        /\ decoded[1][1].timestamp = token[1].timestamp
        /\ decoded[1][1].verified_kyc = token[1].verified_kyc

\* C10 witness: a payload with a 64-character claimer, a timestamp of
\* several non-zero bytes and verified_kyc = true, encoded and decoded.
C10_Witness ==
    /\ pc = "codec_decoded"
    /\ token[1].claimer = ImplicitAccount
    /\ token[1].timestamp = AsU64(1684533462)
    /\ token[1].verified_kyc = TRUE
    /\ decoded = Some(Some(token[1]))

\* The result of decoding bytes that are a proper prefix of an encoding or an
\* encoding followed by extra bytes.
DecodedMalformed == pc \in {"codec_malformed_decoded", "oauth_malformed_decoded"}

\* C11: decoding a proper prefix of a valid encoding, or a valid encoding
\* followed by one or more extra bytes, returns an error and never a payload.
C11_DecodeRejectsMalformed ==
    DecodedMalformed => decoded = Some(None)

\* C11 witness: the encoding of a payload followed by one zero byte, decoded
\* to an error.
C11_Witness ==
    /\ pc = "codec_malformed_decoded"
    /\ decoded = Some(None)
    /\ raw_message[1] = try_to_vec(token[1]) \o <<0>>

\* A rejection other than the signing failure.
IsRejection(e) == e.kind # "SigningError"

CasesNow == user[1].verification_cases

\* C13 as stated: running is_verified_uniqueness and get_kyc_status leaves
\* the profile's verification cases unchanged: the same cases, the same field
\* values, the same order.
C13_ProfileUnchanged ==
    pc \in {"eval_uniqueness", "eval_kyc"} => CasesNow = fetched_cases

\* C13 as amended: is_verified_uniqueness leaves the collection unchanged;
\* get_kyc_status leaves the same cases with the same field values and
\* reorders them in place, most recent updated_at first, cases of equal
\* updated_at in the order they had.
C13_ProfileSortedInPlace ==
    /\ pc = "eval_uniqueness" => CasesNow = fetched_cases
    /\ pc = "eval_kyc" =>
          /\ Len(CasesNow) = Len(fetched_cases)
          /\ \A i \in 1..Len(fetched_cases) :
                \E k \in 1..Len(CasesNow) : CasesNow[k] = fetched_cases[i]
          /\ \A k \in 1..(Len(CasesNow) - 1) :
                \/ CasesNow[k].updated_at > CasesNow[k + 1].updated_at
                \/ /\ CasesNow[k].updated_at = CasesNow[k + 1].updated_at
                   /\ CasesNow[k].id < CasesNow[k + 1].id

\* C13 witness: get_kyc_status has run on an older case followed by a more
\* recent one, and the profile now holds them in the other order.
C13_Witness ==
    /\ pc = "eval_kyc"
    /\ Len(fetched_cases) = 2
    /\ fetched_cases[1].updated_at < fetched_cases[2].updated_at
    /\ CasesNow = <<fetched_cases[2], fetched_cases[1]>>

\* 32 lowercase hexadecimal characters, no separators.
IsHex32(str) ==
    /\ Len(str) = 32
    /\ \A k \in 1..Len(str) : str[k] \in 48..57 \/ str[k] \in 97..102

ClockReads == Cardinality({i \in 1..Len(calls) : calls[i] = "clock"})

\* A u64 in limbs that equals the non-negative number n < 2^31.
LimbsEqual(limbs, n) ==
    /\ limbs[1] + 65536 * limbs[2] = n
    /\ limbs[3] = 0
    /\ limbs[4] = 0

\* C16: the timestamp of the payload is the clock reading in epoch seconds,
\* a non-negative value, read exactly once and only when the payload is
\* built; it is that reading whatever the claimer, the token and the profile;
\* the payload decoded from the response carries it.
C16_TimestampFromClock ==
    /\ token = None => (clock = None /\ ClockReads = 0)
    /\ token # None =>
          /\ ClockReads = 1
          /\ clock # None /\ clock[1] >= 0
          /\ LimbsEqual(token[1].timestamp, clock[1])
    /\ Responded =>
          LET bytes == base64_decode(response[1].value.m)
          IN  /\ bytes # None
              /\ try_from_slice(bytes[1]) # None
              /\ LimbsEqual(try_from_slice(bytes[1])[1].timestamp, clock[1])

\* C16 witness: a response built at the clock reading 1684533462 for the
\* claimer test1.test.near, an OAuth token and a profile of two cases.
C16_Witness ==
    /\ Responded
    /\ clock = Some(1684533462)
    /\ token[1].timestamp = <<61654, 25703, 0, 0>>
    /\ req[1].claimer = Test1TestNear
    /\ req[1].fractal_token = "OAuth"
    /\ Len(fetched_cases) = 2

\* The collaborator has been consulted at least once.
Consulted(who) == \E i \in 1..Len(calls) : calls[i] = who

\* The handler is past its captcha step (main.rs:159) or has returned.
PastCaptcha == pc \notin {"start", "captcha"}

\* The claimer passes the named sub-account gate of main.rs:143.
PassedGate ==
    \/ config[1].allow_named_sub_accounts
    \/ Cardinality({i \in 1..Len(req[1].claimer) : req[1].claimer[i] = 46}) <= 1

\* Captcha comes before the provider, and a request that ended right after a
\* captcha call ended in a rejection with no provider call, no payload and no
\* signature; a request with an OAuth token never consults captcha.
CaptchaUpstream ==
    /\ \A i, j \in 1..Len(calls) :
          (calls[i] = "captcha" /\ calls[j] = "provider") => i < j
    /\ (pc = "done" /\ calls # <<>> /\ calls[Len(calls)] = "captcha") =>
          /\ response # None /\ ~response[1].ok
          /\ response[1].err \in {"SuspiciousUser"} \cup CollaboratorErrors
          /\ ~Consulted("provider")
          /\ token = None /\ raw_message = None /\ signature = None
    /\ response = Some(Err("SuspiciousUser")) => calls = <<"captcha">>
    /\ req[1].fractal_token = "OAuth" => ~Consulted("captcha")

\* C17 as stated: the captcha client is consulted iff the request token is
\* the AuthorizationCode variant, always before the identity provider; a
\* captcha that returns false or fails ends the request in a rejection with
\* no provider call and no signature; OAuth requests never consult captcha.
C17_CaptchaIffAuthorizationCode ==
    /\ PastCaptcha => (Consulted("captcha") <=> req[1].fractal_token = "AuthorizationCode")
    /\ CaptchaUpstream

\* C17 as amended: the captcha client is consulted iff the request passed
\* the named sub-account gate and its token is the AuthorizationCode variant;
\* the rest as stated.
C17_CaptchaIffPastGate ==
    /\ PastCaptcha =>
          (Consulted("captcha") <=>
              (PassedGate /\ req[1].fractal_token = "AuthorizationCode"))
    /\ CaptchaUpstream

\* C17 witness: the captcha client returned false; the request ended as
\* SuspiciousUser with the captcha call its only call.
C17_Witness ==
    /\ pc = "done"
    /\ response = Some(Err("SuspiciousUser"))
    /\ calls = <<"captcha">>
    /\ signature = None

\* C18: in every successful response the signed payload's claimer is the
\* claimer of the request, its ext_account is the uid of the provider
\* profile, and the cleartext kyc is the status the evaluator returned for
\* that profile, approved exactly when the signed verified_kyc is true.
C18_ResponseFields ==
    Responded =>
        LET bytes == base64_decode(response[1].value.m)
            payload == try_from_slice(bytes[1])
        IN  /\ bytes # None
            /\ payload # None
            /\ payload[1].claimer = req[1].claimer
            /\ payload[1].ext_account = user[1].uid
            /\ kyc # None
            /\ response[1].value.kyc = kyc[1]
            /\ response[1].value.kyc =
                  get_kyc_status([verification_cases |-> fetched_cases])
            /\ (response[1].value.kyc = "Approved") <=> payload[1].verified_kyc

\* C18 witness: a response for the implicit account whose profile resolves
\* to Rejected: cleartext kyc Rejected, signed verified_kyc false.
C18_Witness ==
    /\ Responded
    /\ req[1].claimer = ImplicitAccount
    /\ kyc = Some("Rejected")
    /\ response[1].value.kyc = "Rejected"
    /\ token[1].verified_kyc = FALSE
    /\ token[1].ext_account = user[1].uid

\* An implicit account id: 64 lowercase hexadecimal characters.
IsImplicitAccountId(account_id) ==
    /\ Len(account_id) = 64
    /\ \A k \in 1..Len(account_id) :
          account_id[k] \in 48..57 \/ account_id[k] \in 97..102

\* A named account directly under the .near root: one name, then ".near".
IsDirectlyUnderNear(account_id) ==
    /\ Len(account_id) > 5
    /\ SubSeq(account_id, Len(account_id) - 4, Len(account_id)) = <<46, 110, 101, 97, 114>>
    /\ \A k \in 1..(Len(account_id) - 5) : account_id[k] # 46

\* C19: the gate accepts exactly the implicit account ids and the named
\* accounts directly under .near; with allow_named_sub_accounts = false a
\* claimer that is neither is rejected before captcha or the identity
\* provider is contacted, and no attestation is produced.
C19_SubAccountGate ==
    pc # "start" =>
        /\ (/\ ~config[1].allow_named_sub_accounts
            /\ ~IsImplicitAccountId(req[1].claimer)
            /\ ~IsDirectlyUnderNear(req[1].claimer))
              => /\ pc = "done"
                 /\ response = Some(Err("NotAllowedNamedSubAccount"))
                 /\ calls = <<>>
                 /\ token = None /\ raw_message = None /\ signature = None
        /\ response = Some(Err("NotAllowedNamedSubAccount")) =>
              /\ ~config[1].allow_named_sub_accounts
              /\ ~IsImplicitAccountId(req[1].claimer)
              /\ ~IsDirectlyUnderNear(req[1].claimer)

\* Byte k (from 0) of the little-endian form of a u64 held in limbs.
LeByteOf(limbs, k) ==
    IF k % 2 = 0 THEN limbs[k \div 2 + 1] % 256 ELSE limbs[k \div 2 + 1] \div 256

\* The four bytes at bytes[at + 1 .. at + 4] are n, little-endian.
IsLengthPrefix(bytes, at, n) ==
    /\ bytes[at + 1] = n % 256
    /\ bytes[at + 2] = (n \div 256) % 256
    /\ bytes[at + 3] = 0
    /\ bytes[at + 4] = 0

\* C20: the encoding of the payload is the length-prefixed claimer, the
\* length-prefixed ext_account, the timestamp as 8 little-endian bytes and
\* one boolean byte, in that order and with nothing else; it determines the
\* payload; it is the byte string signed and the one returned.
C20_CanonicalLayout ==
    /\ (token # None /\ raw_message # None) =>
          LET bytes == raw_message[1]
              c == Len(token[1].claimer)
              x == Len(token[1].ext_account)
          IN  /\ Len(bytes) = 4 + c + 4 + x + 8 + 1
              /\ IsLengthPrefix(bytes, 0, c)
              /\ SubSeq(bytes, 5, 4 + c) = token[1].claimer
              /\ IsLengthPrefix(bytes, 4 + c, x)
              /\ SubSeq(bytes, 9 + c, 8 + c + x) = token[1].ext_account
              /\ \A k \in 0..7 :
                    bytes[9 + c + x + k] = LeByteOf(token[1].timestamp, k)
              /\ bytes[Len(bytes)] = IF token[1].verified_kyc THEN 1 ELSE 0
              /\ try_from_slice(bytes) = Some(token[1])
    /\ signature # None =>
          signature_verify([key_type |-> "ED25519", bytes |-> signature[1]],
                           raw_message[1],
                           public_key(config[1].signer.credentials.signing_key))
    /\ Responded => base64_decode(response[1].value.m) = raw_message

\* C20 witness: a response whose 113 bytes are those of the payload for the
\* implicit account, built at 1684533462 with verified_kyc = true.
C20_Witness ==
    /\ Responded
    /\ token[1].claimer = ImplicitAccount
    /\ clock = Some(1684533462)
    /\ token[1].verified_kyc = TRUE
    /\ Len(raw_message[1]) = 113
    /\ SubSeq(raw_message[1], 105, 113) = <<214, 240, 103, 100, 0, 0, 0, 0, 1>>

\* The outcome of the request held in l is the one the pipeline gives that
\* request from what the request itself was given: its claimer and token,
\* the answers it got from captcha and the provider, its clock reading.
OutcomeOfOwnRun(l) ==
    l.pc = "done" =>
        IF /\ ~config[1].allow_named_sub_accounts
           /\ ~is_allowed_named_sub_account(l.req[1].claimer)
        THEN l.response = Some(Err("NotAllowedNamedSubAccount")) /\ l.calls = <<>>
        ELSE IF l.user = None
        THEN /\ ~l.response[1].ok
             /\ l.response[1].err \in
                    {"SuspiciousUser", "TimeoutError", "ReqwestError"} \cup CollaboratorErrors
             /\ l.fetched_cases = <<>>
        ELSE IF ~is_verified_uniqueness([verification_cases |-> l.fetched_cases])
        THEN l.response = Some(Err("UserUniquenessNotVerified"))
        ELSE IF l.signature = None
        THEN l.response = Some(Err("SigningError"))
        ELSE LET bytes == base64_decode(l.response[1].value.m)
                 payload == try_from_slice(bytes[1])
                 status == get_kyc_status([verification_cases |-> l.fetched_cases])
             IN  /\ l.response[1].ok
                 /\ bytes # None
                 /\ payload # None
                 /\ payload[1].claimer = l.req[1].claimer
                 /\ payload[1].ext_account = l.user[1].uid
                 /\ payload[1].verified_kyc = (status = "Approved")
                 /\ LimbsEqual(payload[1].timestamp, l.clock[1])
                 /\ l.response[1].value.kyc = status

\* The calls of a request are its own: one with an OAuth token has not
\* consulted captcha, whatever the other request did.
OwnCalls(l) ==
    l.req[1].fractal_token = "OAuth" =>
        \A i \in 1..Len(l.calls) : l.calls[i] # "captcha"

\* C14: with the steps of two requests interleaved in any order, each
\* request ends in the outcome of its own run (its error kind, or the signed
\* claimer, ext_account, verified_kyc and the cleartext KYC status of its
\* own profile), and no step writes the configuration or the signing key.
C14_ConcurrentRequestsIndependent ==
    /\ [](/\ OutcomeOfOwnRun(TaskLocals) /\ OwnCalls(TaskLocals)
          /\ OutcomeOfOwnRun(parked[1]) /\ OwnCalls(parked[1]))
    /\ [][config' = config]_vars

\* C14 witness: the request of test.near has been answered with its own
\* profile (the test uid, KYC approved) while the request of test1.test.near
\* is set aside between payload build and signing, holding the nil uid and
\* a profile with no KYC case.
C14_Witness ==
    /\ Responded
    /\ req[1].claimer = TestNear
    /\ token[1].ext_account = TestUuidSimple
    /\ response[1].value.kyc = "Approved"
    /\ parked[1].pc = "built"
    /\ parked[1].req[1].claimer = Test1TestNear
    /\ parked[1].token[1].ext_account = NilUuidSimple
    /\ parked[1].kyc = Some("Unavailable")

\* The parts of the "level" string that are names of VerificationLevel
\* variants, by position.
RecognisedParts == {i \in 1..Len(level_parts) : \E l \in VerificationLevel : LevelName(l) = level_parts[i]}

\* levels holds the variants of the recognised parts, one for each, in the
\* order of the parts.
RecognisedInOrder ==
    /\ Len(levels[1]) = Cardinality(RecognisedParts)
    /\ \E at \in [1..Len(levels[1]) -> RecognisedParts] :
          /\ \A j, k \in 1..Len(levels[1]) : j < k => at[j] < at[k]
          /\ \A k \in 1..Len(levels[1]) :
                /\ levels[1][k] \in VerificationLevel
                /\ LevelName(levels[1][k]) = level_parts[at[k]]

\* "basic+liveness" gives [Basic, Liveness], "uniqueness" gives [Uniqueness].
LevelExamples ==
    /\ level = Some(<<98, 97, 115, 105, 99, 43, 108, 105, 118, 101, 110, 101, 115, 115>>) => levels = Some(<<"Basic", "Liveness">>)
    /\ level = Some(<<117, 110, 105, 113, 117, 101, 110, 101, 115, 115>>) => levels = Some(<<"Uniqueness">>)

\* C21 as stated: a deserialized "level" string yields the recognised tags
\* in their original order and never an empty tag list.
C21_LevelsNeverEmpty ==
    levels # None =>
        /\ RecognisedInOrder
        /\ LevelExamples
        /\ levels[1] # <<>>

\* C21 as amended: a deserialized "level" string yields the recognised tags
\* in their original order, the parts that name no tag dropped; the list is
\* empty exactly when no part of the string names a tag.
C21_LevelsRecognisedInOrder ==
    levels # None =>
        /\ RecognisedInOrder
        /\ LevelExamples
        /\ (levels[1] = <<>>) <=> (RecognisedParts = {})

\* C21 witness: "wallet+liveness" deserialized to [Liveness], the part the
\* enum does not have dropped.
C21_Witness ==
    /\ pc = "level_parsed"
    /\ level = Some(<<119, 97, 108, 108, 101, 116, 43, 108, 105, 118, 101, 110, 101, 115, 115>>)
    /\ levels = Some(<<"Liveness">>)

\* The orders a collection of n cases can be returned in.
CaseOrders(n) == {p \in [1..n -> 1..n] : \A i, j \in 1..n : p[i] = p[j] => i = j}

\* The profile with its cases in the order p.
Permuted(cases, p) == [verification_cases |-> [i \in 1..Len(cases) |-> cases[p[i]]]]

\* C22: for every collection of cases and every permutation of it,
\* is_verified_uniqueness and get_kyc_status return the same results, also
\* when two KYC-eligible cases that are not approved, one Pending and one
\* Rejected, have equal updated_at.
C22_OrderIndependence ==
    kyc # None =>
        \A p \in CaseOrders(Len(fetched_cases)) :
            /\ is_verified_uniqueness(Permuted(fetched_cases, p)) = uniqueness[1]
            /\ get_kyc_status(Permuted(fetched_cases, p)) = kyc[1]

\* The profile with the lifecycle status of its i-th case set to status.
WithStatus(cases, i, status) ==
    [verification_cases |-> [cases EXCEPT ![i].status = status]]

\* The profile with every case tagged uniqueness set to status.
WithUniquenessStatus(cases, status) ==
    [verification_cases |->
        [i \in 1..Len(cases) |->
            IF \E j \in 1..Len(cases[i].level) : cases[i].level[j] = "Uniqueness"
            THEN [cases[i] EXCEPT !.status = status]
            ELSE cases[i]]]

\* The case carries both the basic and the liveness tag.
TaggedBasicLiveness(case) ==
    /\ \E j \in 1..Len(case.level) : case.level[j] = "Basic"
    /\ \E j \in 1..Len(case.level) : case.level[j] = "Liveness"

\* C23: for every collection of cases, changing the lifecycle status of any
\* case tagged basic+liveness leaves the result of get_kyc_status
\* unchanged; an eligible case with credential Approved yields Approved
\* whatever its lifecycle status; the uniqueness decision requires Done.
C23_StatusNotAssumed ==
    kyc # None =>
        /\ \A i \in 1..Len(fetched_cases) : \A status \in VerificationStatus :
              TaggedBasicLiveness(fetched_cases[i]) =>
                  get_kyc_status(WithStatus(fetched_cases, i, status)) = kyc[1]
        /\ (\E i \in 1..Len(fetched_cases) :
                /\ TaggedBasicLiveness(fetched_cases[i])
                /\ fetched_cases[i].details.liveness
                /\ fetched_cases[i].credential = "Approved"
                /\ fetched_cases[i].status # "Done")
              => kyc[1] = "Approved"
        /\ \A status \in VerificationStatus \ {"Done"} :
              ~is_verified_uniqueness(WithUniquenessStatus(fetched_cases, status))
        /\ uniqueness[1] =>
              \E i \in 1..Len(fetched_cases) :
                  /\ fetched_cases[i].status = "Done"
                  /\ \E j \in 1..Len(fetched_cases[i].level) :
                        fetched_cases[i].level[j] = "Uniqueness"

\* C23 witness: one case tagged uniqueness+basic+liveness, approved, with
\* liveness, whose lifecycle status is Contacted: the KYC status is Approved
\* and the uniqueness decision fails.
C23_Witness ==
    /\ pc = "eval_kyc"
    /\ Len(fetched_cases) = 1
    /\ fetched_cases[1].level = <<"Uniqueness", "Basic", "Liveness">>
    /\ fetched_cases[1].status = "Contacted"
    /\ fetched_cases[1].credential = "Approved"
    /\ fetched_cases[1].details.liveness
    /\ kyc = Some("Approved")
    /\ uniqueness = Some(FALSE)
====
